---- MODULE Spec2Model ----
(***************************************************************************)
(* Model of the request controller of docker-fpm (pkg/fpm/controller.go):  *)
(* the container pool, its lifecycle operations, the selection policy and  *)
(* the request router, together with the sync.RWMutex that guards them and *)
(* the container runtime the controller drives (pkg/docker).               *)
(***************************************************************************)
EXTENDS Integers, Sequences, FiniteSets, TLC

\* ------------------------------------------------------------------ bounds
MaxAmount == 2      \* largest Config.ContainerAmount explored
NumReqs == 2        \* number of inbound requests explored
MaxCalls == 5       \* longest sequence of direct lifecycle calls explored

\* --------------------------------------------------------------- constants
DynamicController == "dynamic"
StaticController == "static"
StatusInternalServerError == 500
StatusBadGateway == 502
StatusBackend == 200
Deployment == "dep"

Main == 0
Reqs == 1..NumReqs
Threads == {Main} \cup Reqs
NoThread == -1

VARIABLES
    Config,        \* ControllerConfig: Type, ContainerAmount
    Containers,    \* ReqController.Containers
    ContainerNo,   \* ReqController.ContainerNo
    rt,            \* the container runtime: one record per created container
    wHolder,       \* RWMutex: the goroutine inside Lock()..Unlock(), or NoThread
    readers,       \* RWMutex: the goroutines holding the read lock
    pc,            \* position of every goroutine
    initI,         \* the loop variable i of Init
    chosen,        \* ServeHTTP's local "chosen"
    status,        \* status written with w.WriteHeader, 0 when none
    writes,        \* number of WriteHeader calls of a request
    selections,    \* number of getRandomContainer calls of a request
    dispatches,    \* number of client.Do calls of a request
    result,        \* the path a request took
    dormantSeen,   \* until it selects: the request found the first entry not started
    woke,          \* until it selects: the request ran startContainers successfully
    quarAtSelect,  \* some id was already quarantined when the request selected
    quarantined,   \* ids whose setContainerDirty after a failed dispatch completed
    crashed,       \* the process died from a runtime panic
    call           \* the lifecycle method called last on its own, and how it returned

vars == <<Config, Containers, ContainerNo, rt, wHolder, readers, pc, initI, chosen,
          status, writes, selections, dispatches, result, dormantSeen, woke, quarAtSelect,
          quarantined, crashed, call>>

poolVars == <<Containers, ContainerNo, rt>>
histVars == <<dormantSeen, woke, quarAtSelect, quarantined>>
reqVars == <<chosen, status, writes, selections, dispatches, result, histVars>>

\* ------------------------------------------------------------------ values
NoCall == [op |-> "none", hard |-> FALSE, err |-> FALSE, at |-> 0, n |-> 0,
           prev |-> "none", prevErr |-> FALSE]
NoAddr == <<>>
NoContainer == [Name |-> <<>>, Id |-> <<>>, Started |-> FALSE, Dirty |-> FALSE, IPAddr |-> NoAddr]

Min(S) == CHOOSE x \in S : \A y \in S : x <= y

\* fmt.Sprintf("%s-%d", s.Config.Deployment, s.ContainerNo)
ContainerName(k) == <<Deployment, k>>

\* the id the runtime assigns to the k-th container it creates
RuntimeId(k) == <<"cid", k>>
RtIdx(id) == id[2]

\* details.NetworkSettings.IPAddress of a running container
IPAddressOf(id) == <<"ip", id[2]>>

controllerTypes == {DynamicController, StaticController}
validControllerType(c) == c \in controllerTypes

\* ---------------------------------------------------------- runtime client
NewRtContainer == [running |-> FALSE, removed |-> FALSE, starts |-> 0, kills |-> 0]

\* docker.Client.StartContainer: ok says whether the call succeeded
StartContainer(r, id, ok) ==
    [r EXCEPT ![RtIdx(id)] = [@ EXCEPT !.starts = @ + 1,
                                       !.running = IF ok THEN TRUE ELSE @]]

\* docker.Client.KillContainer
KillContainer(r, id, ok) ==
    [r EXCEPT ![RtIdx(id)] = [@ EXCEPT !.kills = @ + 1,
                                       !.running = IF ok THEN FALSE ELSE @]]

\* docker.Client.StopContainer
StopContainer(r, id, ok) ==
    [r EXCEPT ![RtIdx(id)] = [@ EXCEPT !.running = IF ok THEN FALSE ELSE @]]

\* docker.Client.RemoveContainer
RemoveContainer(r, id, ok) ==
    [r EXCEPT ![RtIdx(id)] = [@ EXCEPT !.removed = IF ok THEN TRUE ELSE @]]

\* ------------------------------------------------------ lifecycle manager
\* variant: the entry is named after its position in the pool
createNewContainer_NameByPosition(cs, no, id) ==
    Append(cs, [Name |-> ContainerName(Len(cs) + 1), Id |-> id, Started |-> FALSE,
                Dirty |-> FALSE, IPAddr |-> NoAddr])

\* createNewContainer: the pool after a successful CreateContainer
createNewContainer(cs, no, id) ==
    Append(cs, [Name |-> ContainerName(no), Id |-> id, Started |-> FALSE,
                Dirty |-> FALSE, IPAddr |-> NoAddr])

StartOutcomes == {"ok", "start_err", "inspect_err"}

\* variant: the entry is flagged started before the inspect call is checked
startContainersEntry_EarlyFlag(cs, i, o) ==
    IF o # "start_err"
    THEN [cs EXCEPT ![i] = [@ EXCEPT !.IPAddr = IF o = "ok" THEN IPAddressOf(cs[i].Id) ELSE @,
                                     !.Started = TRUE]]
    ELSE cs

\* one iteration of the loop of startContainers on entry i
\* (the entry is not started; the outcome says which runtime call failed)
startContainersEntry(cs, i, o) ==
    IF o = "ok"
    THEN [cs EXCEPT ![i] = [@ EXCEPT !.IPAddr = IPAddressOf(cs[i].Id), !.Started = TRUE]]
    ELSE cs

startContainersRt(r, id, o) == StartContainer(r, id, o # "start_err")

\* the runtime call that fails during one pass over the pool, if any
NoFailure == [at |-> 0, kind |-> "ok"]
OutcomeAt(f, i) == IF f.at = i THEN f.kind ELSE "ok"

\* the failures one call of startContainers can meet: a start or an inspect
\* of an entry that is not started
StartFailures(cs) ==
    {NoFailure} \cup [at : {i \in 1..Len(cs) : ~cs[i].Started}, kind : StartOutcomes \ {"ok"}]

\* variant: a started entry ends the pass instead of being skipped
RECURSIVE startContainersFrom_ReturnOnStarted(_, _, _, _)
startContainersFrom_ReturnOnStarted(cs, r, i, f) ==
    IF i > Len(cs) THEN [cs |-> cs, rt |-> r, err |-> FALSE]
    ELSE IF cs[i].Started THEN [cs |-> cs, rt |-> r, err |-> FALSE]
    ELSE LET o == OutcomeAt(f, i)
             cs2 == startContainersEntry(cs, i, o)
             r2 == startContainersRt(r, cs[i].Id, o)
         IN  IF o = "ok" THEN startContainersFrom_ReturnOnStarted(cs2, r2, i + 1, f)
             ELSE [cs |-> cs2, rt |-> r2, err |-> TRUE]

\* startContainers from entry i on: started entries are skipped, the first
\* error ends the loop
RECURSIVE startContainersFrom(_, _, _, _)
startContainersFrom(cs, r, i, f) ==
    IF i > Len(cs) THEN [cs |-> cs, rt |-> r, err |-> FALSE]
    ELSE IF cs[i].Started THEN startContainersFrom(cs, r, i + 1, f)
    ELSE LET o == OutcomeAt(f, i)
             cs2 == startContainersEntry(cs, i, o)
             r2 == startContainersRt(r, cs[i].Id, o)
         IN  IF o = "ok" THEN startContainersFrom(cs2, r2, i + 1, f)
             ELSE [cs |-> cs2, rt |-> r2, err |-> TRUE]

\* variant: the started flag is not looked at, every entry is started again
startContainers_Restart(cs, r, f) ==
    startContainersFrom([i \in 1..Len(cs) |-> [cs[i] EXCEPT !.Started = FALSE]], r, 1, f)

startContainers(cs, r, f) ==
    startContainersFrom(cs, r, 1, f)

StopOutcomes == {"ok", "stop_err", "kill_err"}

\* what the runtime answers for each entry during one pass of stopContainers:
\* "stop_err" fails the graceful stop only, "kill_err" fails the kill as well
StopAnswers(cs) == [1..Len(cs) -> StopOutcomes]

\* one iteration of stopContainers on the started entry i: the graceful
\* stop, and the kill when it failed and hard is set
stopContainersRt(r, id, hard, o) ==
    LET stopped == StopContainer(r, id, o = "ok")
    IN  IF o # "ok" /\ hard THEN KillContainer(stopped, id, o # "kill_err") ELSE stopped

\* variant: a failed graceful stop ends the loop whether or not hard is set
stopContainersFails_AnyStopError(hard, o) == o # "ok"

stopContainersFails(hard, o) == (o # "ok" /\ ~hard) \/ o = "kill_err"

\* variant: the address of a stopped entry is kept
stopContainersEntry_KeepAddr(cs, i) ==
    [cs EXCEPT ![i] = [@ EXCEPT !.Started = FALSE]]

stopContainersEntry(cs, i) ==
    [cs EXCEPT ![i] = [@ EXCEPT !.Started = FALSE, !.IPAddr = NoAddr]]

\* stopContainers from entry i on: entries not started are skipped, the
\* first error that is returned ends the loop at that entry
RECURSIVE stopContainersFrom(_, _, _, _, _)
stopContainersFrom(cs, r, hard, i, os) ==
    IF i > Len(cs) THEN [cs |-> cs, rt |-> r, err |-> FALSE, at |-> 0]
    ELSE IF ~cs[i].Started THEN stopContainersFrom(cs, r, hard, i + 1, os)
    ELSE LET r2 == stopContainersRt(r, cs[i].Id, hard, os[i])
         IN  IF stopContainersFails(hard, os[i])
             THEN [cs |-> cs, rt |-> r2, err |-> TRUE, at |-> i]
             ELSE stopContainersFrom(stopContainersEntry(cs, i), r2, hard, i + 1, os)

\* variant: the entries are written back with the dirty flag reset
stopContainers_ResetDirty(cs, r, hard, os) ==
    LET res == stopContainersFrom(cs, r, hard, 1, os)
    IN  [res EXCEPT !.cs = [i \in 1..Len(res.cs) |-> [res.cs[i] EXCEPT !.Dirty = FALSE]]]

stopContainers(cs, r, hard, os) ==
    stopContainersFrom(cs, r, hard, 1, os)

CleanupOutcomes == {"ok", "kill_err", "remove_err"}

\* the failures one call of cleanupContainers can meet: only a started
\* entry is killed, every entry is removed
CleanupFailures(cs) ==
    {NoFailure} \cup [at : {i \in 1..Len(cs) : cs[i].Started}, kind : {"kill_err"}]
                \cup [at : 1..Len(cs), kind : {"remove_err"}]

\* variant: every entry is killed before it is removed, started or not
cleanupContainersRt_KillAll(r, c, o) ==
    LET killed == KillContainer(r, c.Id, o # "kill_err")
    IN  IF o = "kill_err" THEN killed ELSE RemoveContainer(killed, c.Id, o = "ok")

\* the runtime after one iteration of cleanupContainers on container c
cleanupContainersRt(r, c, o) ==
    LET killed == IF c.Started THEN KillContainer(r, c.Id, o # "kill_err") ELSE r
    IN  IF c.Started /\ o = "kill_err" THEN killed
        ELSE RemoveContainer(killed, c.Id, o = "ok")

\* cleanupContainers from entry i on: the first error ends the loop
RECURSIVE cleanupContainersFrom(_, _, _, _)
cleanupContainersFrom(cs, r, i, f) ==
    IF i > Len(cs) THEN [rt |-> r, err |-> FALSE]
    ELSE LET o == OutcomeAt(f, i)
             r2 == cleanupContainersRt(r, cs[i], o)
         IN  IF o = "ok" THEN cleanupContainersFrom(cs, r2, i + 1, f)
             ELSE [rt |-> r2, err |-> TRUE]

cleanupContainers(cs, r, f) == cleanupContainersFrom(cs, r, 1, f)

\* ------------------------------------------------------- selection policy
Ready(c) == ~c.Dirty /\ c.Started

\* the sequences of rand.Intn(amount) results one call can draw (1-based)
ProbeSeqs(cs, amountCfg) ==
    IF Len(cs) = 0 THEN {<<>>} ELSE [1..amountCfg -> 1..Len(cs)]

\* variant: the probes only, without the linear scan that follows them
getRandomContainer_NoScan(cs, amountCfg, probes) ==
    LET amount == Len(cs)
        hits == {a \in 1..amountCfg : Ready(cs[probes[a]])}
    IN  IF amount = 0 THEN [c |-> NoContainer, err |-> TRUE]
        ELSE IF hits # {} THEN [c |-> cs[probes[Min(hits)]], err |-> FALSE]
        ELSE [c |-> NoContainer, err |-> TRUE]

getRandomContainer(cs, amountCfg, probes) ==
    LET amount == Len(cs)
        hits == {a \in 1..amountCfg : Ready(cs[probes[a]])}
        scan == {i \in 1..amount : Ready(cs[i])}
    IN  IF amount = 0 THEN [c |-> NoContainer, err |-> TRUE]
        ELSE IF hits # {} THEN [c |-> cs[probes[Min(hits)]], err |-> FALSE]
        ELSE IF scan # {} THEN [c |-> cs[Min(scan)], err |-> FALSE]
        ELSE [c |-> NoContainer, err |-> TRUE]

\* variant: the flagged copy is appended instead of replacing its entry
setContainerDirty_Append(cs, id) ==
    LET hit == {i \in 1..Len(cs) : cs[i].Id = id}
    IN  IF hit = {} THEN cs ELSE Append(cs, [cs[Min(hit)] EXCEPT !.Dirty = TRUE])

\* variant: the copy is flagged but never written back to the slice
setContainerDirty_NoWriteBack(cs, id) == cs

\* variant: the id is not compared, every entry is flagged
setContainerDirty_All(cs, id) ==
    [i \in 1..Len(cs) |-> [cs[i] EXCEPT !.Dirty = TRUE]]

setContainerDirty(cs, id) ==
    [i \in 1..Len(cs) |-> IF cs[i].Id = id THEN [cs[i] EXCEPT !.Dirty = TRUE] ELSE cs[i]]

\* ---------------------------------------------------------------- RWMutex
\* Lock() first excludes other writers and new readers ...
CanLock == wHolder = NoThread
\* variant: Lock() that does not wait for the active readers
LockGranted_IgnoreReaders(t) == wHolder = t

\* ... and returns once the active readers have left
LockGranted(t) == wHolder = t /\ readers = {}
\* RLock() returns when no writer holds or waits for the lock
CanRLock == wHolder = NoThread

\* ------------------------------------------------------------------- Init
Init ==
    /\ Config \in [Type : controllerTypes, ContainerAmount : 0..MaxAmount]
    /\ Containers = <<>>
    /\ ContainerNo = 0
    /\ rt = <<>>
    /\ wHolder = NoThread
    /\ readers = {}
    /\ pc = [t \in Threads |-> IF t = Main THEN "new" ELSE "idle"]
    /\ initI = 0
    /\ chosen = [r \in Reqs |-> NoContainer]
    /\ status = [r \in Reqs |-> 0]
    /\ writes = [r \in Reqs |-> 0]
    /\ selections = [r \in Reqs |-> 0]
    /\ dispatches = [r \in Reqs |-> 0]
    /\ result = [r \in Reqs |-> "none"]
    /\ dormantSeen = [r \in Reqs |-> FALSE]
    /\ woke = [r \in Reqs |-> FALSE]
    /\ quarAtSelect = [r \in Reqs |-> FALSE]
    /\ quarantined = {}
    /\ crashed = FALSE
    /\ call = NoCall

\* ------------------------------------------------- ReqController.Init()
\* s.Lock.Lock(): nobody else holds a reference to the controller yet
InitLock ==
    /\ pc[Main] = "new" /\ ~crashed
    /\ CanLock
    /\ wHolder' = Main
    /\ pc' = [pc EXCEPT ![Main] = "create"]
    /\ initI' = 0
    /\ UNCHANGED <<Config, call, poolVars, readers, reqVars, crashed>>

\* one iteration of the creation loop of Init
InitCreate ==
    /\ pc[Main] = "create" /\ ~crashed
    /\ LockGranted(Main)
    /\ initI < Config.ContainerAmount
    /\ ContainerNo' = ContainerNo + 1
    /\ \E ok \in BOOLEAN :
         IF ok
         THEN /\ rt' = Append(rt, NewRtContainer)
              /\ Containers' = createNewContainer(Containers, ContainerNo', RuntimeId(Len(rt) + 1))
              /\ initI' = initI + 1
              /\ pc' = pc
              /\ wHolder' = wHolder
         ELSE /\ UNCHANGED <<rt, Containers, initI>>
              /\ pc' = [pc EXCEPT ![Main] = "init_failed"]
              /\ wHolder' = NoThread
    /\ UNCHANGED <<Config, call, readers, reqVars, crashed>>

\* variant: Init that returns after the creation loop in either mode
InitStart_NoEagerStart ==
    /\ pc[Main] = "create" /\ ~crashed
    /\ LockGranted(Main)
    /\ initI >= Config.ContainerAmount
    /\ pc' = [pc EXCEPT ![Main] = "serving"]
    /\ wHolder' = NoThread
    /\ UNCHANGED <<Config, call, poolVars, readers, initI, reqVars, crashed>>

\* the creation loop is over: static mode runs startContainers; Init
\* returns its error or nil and the deferred Unlock runs
InitStart ==
    /\ pc[Main] = "create" /\ ~crashed
    /\ LockGranted(Main)
    /\ initI >= Config.ContainerAmount
    /\ IF Config.Type = StaticController
       THEN \E f \in StartFailures(Containers) :
              LET res == startContainers(Containers, rt, f) IN
              /\ Containers' = res.cs
              /\ rt' = res.rt
              /\ pc' = [pc EXCEPT ![Main] = IF res.err THEN "init_failed" ELSE "serving"]
       ELSE /\ pc' = [pc EXCEPT ![Main] = "serving"]
            /\ UNCHANGED <<Containers, rt>>
    /\ wHolder' = NoThread
    /\ UNCHANGED <<Config, call, ContainerNo, readers, initI, reqVars, crashed>>

\* Init returned nil, so the bootstrap serves requests
InitOK == pc[Main] \in {"serving", "close_lock", "cleanup", "closed", "close_failed"}

\* ------------------------------------------------ ReqController.Close()
\* s.Lock.Lock() of Close: announce the writer
CloseLock ==
    /\ pc[Main] = "serving" /\ ~crashed
    /\ CanLock
    /\ wHolder' = Main
    /\ pc' = [pc EXCEPT ![Main] = "close_lock"]
    /\ UNCHANGED <<Config, call, poolVars, readers, initI, reqVars, crashed>>

\* Lock() returns in Close once the readers have left
CloseAcquire ==
    /\ pc[Main] = "close_lock" /\ ~crashed
    /\ LockGranted(Main)
    /\ pc' = [pc EXCEPT ![Main] = "cleanup"]
    /\ UNCHANGED <<Config, call, poolVars, wHolder, readers, initI, reqVars, crashed>>

\* cleanupContainers, then Close returns and the deferred Unlock runs
Cleanup ==
    /\ pc[Main] = "cleanup" /\ ~crashed
    /\ \E f \in CleanupFailures(Containers) :
         LET res == cleanupContainers(Containers, rt, f) IN
         /\ rt' = res.rt
         /\ pc' = [pc EXCEPT ![Main] = IF res.err THEN "close_failed" ELSE "closed"]
    /\ wHolder' = NoThread
    /\ UNCHANGED <<Config, call, Containers, ContainerNo, readers, initI, reqVars, crashed>>

\* -------------------------------------------- ReqController.ServeHTTP()
\* the locals of a request: chosen and the two observations made on its way
localVars == <<chosen, dormantSeen, woke, quarAtSelect>>
respVars == <<status, writes, result>>

\* w.WriteHeader(code) followed by return: the locals of the call are gone
Respond(r, code, path) ==
    /\ status' = [status EXCEPT ![r] = code]
    /\ writes' = [writes EXCEPT ![r] = @ + 1]
    /\ result' = [result EXCEPT ![r] = path]
    /\ pc' = [pc EXCEPT ![r] = "done"]
    /\ chosen' = [chosen EXCEPT ![r] = NoContainer]
    /\ dormantSeen' = [dormantSeen EXCEPT ![r] = FALSE]
    /\ woke' = [woke EXCEPT ![r] = FALSE]
    /\ quarAtSelect' = [quarAtSelect EXCEPT ![r] = FALSE]

\* the dormancy test, made before any lock is taken; indexing an empty
\* pool is a runtime panic of the serving goroutine
ReqCheck(r) ==
    /\ pc[r] = "idle" /\ ~crashed
    /\ InitOK
    /\ IF Config.Type = DynamicController
       THEN IF Len(Containers) = 0
            THEN /\ crashed' = TRUE
                 /\ pc' = [pc EXCEPT ![r] = "panicked"]
            ELSE /\ crashed' = crashed
                 /\ pc' = [pc EXCEPT ![r] = IF ~Containers[1].Started THEN "lock" ELSE "rlock"]
       ELSE /\ crashed' = crashed
            /\ pc' = [pc EXCEPT ![r] = "rlock"]
    /\ dormantSeen' = [dormantSeen EXCEPT ![r] = pc'[r] = "lock"]
    /\ UNCHANGED <<Config, call, poolVars, wHolder, readers, initI, chosen, respVars,
                   selections, dispatches, woke, quarAtSelect, quarantined>>

\* s.Lock.Lock() of the wake-up: announce the writer
ReqLock(r) ==
    /\ pc[r] = "lock" /\ ~crashed
    /\ CanLock
    /\ wHolder' = r
    /\ pc' = [pc EXCEPT ![r] = "lockwait"]
    /\ UNCHANGED <<Config, call, poolVars, readers, initI, reqVars, crashed>>

\* Lock() returns once the readers have left
ReqLockAcquire(r) ==
    /\ pc[r] = "lockwait" /\ ~crashed
    /\ LockGranted(r)
    /\ pc' = [pc EXCEPT ![r] = "starting"]
    /\ UNCHANGED <<Config, call, poolVars, wHolder, readers, initI, reqVars, crashed>>

\* variant: the wake-up starts every entry without looking at its flag
ReqStart_Restart(r) ==
    /\ pc[r] = "starting" /\ ~crashed
    /\ \E f \in StartFailures(Containers) :
         LET res == startContainers_Restart(Containers, rt, f) IN
         /\ Containers' = res.cs
         /\ rt' = res.rt
         /\ IF res.err
            THEN Respond(r, StatusInternalServerError, "wakeup_failed")
            ELSE /\ woke' = [woke EXCEPT ![r] = TRUE]
                 /\ pc' = [pc EXCEPT ![r] = "rlock"]
                 /\ UNCHANGED <<respVars, chosen, dormantSeen, quarAtSelect>>
    /\ wHolder' = NoThread
    /\ UNCHANGED <<Config, call, ContainerNo, readers, initI, selections, dispatches,
                   quarantined, crashed>>

\* startContainers called from ServeHTTP, then Unlock; an error answers 500
\* and returns
ReqStart(r) ==
    /\ pc[r] = "starting" /\ ~crashed
    /\ \E f \in StartFailures(Containers) :
         LET res == startContainers(Containers, rt, f) IN
         /\ Containers' = res.cs
         /\ rt' = res.rt
         /\ IF res.err
            THEN Respond(r, StatusInternalServerError, "wakeup_failed")
            ELSE /\ woke' = [woke EXCEPT ![r] = TRUE]
                 /\ pc' = [pc EXCEPT ![r] = "rlock"]
                 /\ UNCHANGED <<respVars, chosen, dormantSeen, quarAtSelect>>
    /\ wHolder' = NoThread
    /\ UNCHANGED <<Config, call, ContainerNo, readers, initI, selections, dispatches,
                   quarantined, crashed>>

\* s.Lock.RLock(), released by the deferred RUnlock at every return
ReqRLock(r) ==
    /\ pc[r] = "rlock" /\ ~crashed
    /\ CanRLock
    /\ readers' = readers \cup {r}
    /\ pc' = [pc EXCEPT ![r] = "select"]
    /\ UNCHANGED <<Config, call, poolVars, wHolder, initI, reqVars, crashed>>

\* chosen, err := s.getRandomContainer(); an error answers 500 and returns
ReqSelect(r) ==
    /\ pc[r] = "select" /\ ~crashed
    /\ selections' = [selections EXCEPT ![r] = @ + 1]
    /\ \E sel \in {getRandomContainer(Containers, Config.ContainerAmount, probes) :
                       probes \in ProbeSeqs(Containers, Config.ContainerAmount)} :
        IF sel.err
        THEN /\ Respond(r, StatusInternalServerError, "select_failed")
             /\ readers' = readers \ {r}
        ELSE /\ chosen' = [chosen EXCEPT ![r] = sel.c]
             /\ quarAtSelect' = [quarAtSelect EXCEPT ![r] = quarantined # {}]
             /\ dormantSeen' = [dormantSeen EXCEPT ![r] = FALSE]
             /\ woke' = [woke EXCEPT ![r] = FALSE]
             /\ pc' = [pc EXCEPT ![r] = "dispatch"]
             /\ UNCHANGED <<readers, respVars>>
    /\ UNCHANGED <<Config, call, poolVars, wHolder, initI, dispatches, quarantined, crashed>>

DispatchOutcomes == {"ok", "newreq_err", "do_err"}

\* http.NewRequest and client.Do: a request that cannot be built answers
\* 500, a successful round trip relays the backend's status
ReqDispatch(r) ==
    /\ pc[r] = "dispatch" /\ ~crashed
    /\ \E o \in DispatchOutcomes :
        /\ (o = "ok") => rt[RtIdx(chosen[r].Id)].running
        /\ CASE o = "newreq_err" ->
                  /\ Respond(r, StatusInternalServerError, "newreq_failed")
                  /\ readers' = readers \ {r}
                  /\ dispatches' = dispatches
             [] o = "do_err" ->
                  /\ dispatches' = [dispatches EXCEPT ![r] = @ + 1]
                  /\ pc' = [pc EXCEPT ![r] = "markdirty"]
                  /\ UNCHANGED <<readers, respVars, localVars>>
             [] o = "ok" ->
                  /\ dispatches' = [dispatches EXCEPT ![r] = @ + 1]
                  /\ Respond(r, StatusBackend, "ok")
                  /\ readers' = readers \ {r}
    /\ UNCHANGED <<Config, call, poolVars, wHolder, initI, selections, quarantined, crashed>>

\* variant: after a failed dispatch the request selects again
ReqMarkDirty_Retry(r) ==
    /\ pc[r] = "markdirty" /\ ~crashed
    /\ Containers' = setContainerDirty(Containers, chosen[r].Id)
    /\ quarantined' = quarantined \cup {chosen[r].Id}
    /\ pc' = [pc EXCEPT ![r] = "select"]
    /\ UNCHANGED <<Config, call, ContainerNo, rt, wHolder, readers, initI, selections, dispatches,
                   respVars, localVars, crashed>>

\* the dispatch failed: s.setContainerDirty(chosen.Id), answer 502, return
ReqMarkDirty(r) ==
    /\ pc[r] = "markdirty" /\ ~crashed
    /\ Containers' = setContainerDirty(Containers, chosen[r].Id)
    /\ quarantined' = quarantined \cup {chosen[r].Id}
    /\ Respond(r, StatusBadGateway, "dispatch_failed")
    /\ readers' = readers \ {r}
    /\ UNCHANGED <<Config, call, ContainerNo, rt, wHolder, initI, selections, dispatches, crashed>>

\* ------------------------------------------------------------------- Next
Next ==
    \/ InitLock
    \/ InitCreate
    \/ InitStart
    \/ CloseLock
    \/ CloseAcquire
    \/ Cleanup
    \/ \E r \in Reqs : ReqCheck(r)
    \/ \E r \in Reqs : ReqLock(r)
    \/ \E r \in Reqs : ReqLockAcquire(r)
    \/ \E r \in Reqs : ReqStart(r)
    \/ \E r \in Reqs : ReqRLock(r)
    \/ \E r \in Reqs : ReqSelect(r)
    \/ \E r \in Reqs : ReqDispatch(r)
    \/ \E r \in Reqs : ReqMarkDirty(r)

Spec == Init /\ [][Next]_vars

\* every goroutine that can take its next step takes it: the scheduler
\* runs every runnable goroutine, sync.RWMutex hands the lock to a waiter
\* when it is free, and the calls to the runtime and to the backend return.
\* The arrival of a request and the call of Close are left to the
\* environment.
Fairness ==
    /\ WF_vars(InitLock) /\ WF_vars(InitCreate) /\ WF_vars(InitStart)
    /\ WF_vars(CloseAcquire) /\ WF_vars(Cleanup)
    /\ \A r \in Reqs :
         /\ WF_vars(ReqLock(r)) /\ WF_vars(ReqLockAcquire(r)) /\ WF_vars(ReqStart(r))
         /\ WF_vars(ReqRLock(r)) /\ WF_vars(ReqSelect(r))
         /\ WF_vars(ReqDispatch(r)) /\ WF_vars(ReqMarkDirty(r))

FairSpec == Init /\ [][Next]_vars /\ Fairness

\* ------------------------------------------- the lifecycle methods alone
\* The methods of the lifecycle manager and setContainerDirty called one
\* after the other on one controller, in any order and with any answers of
\* the runtime, by a caller that holds the lock and serves no request;
\* stopContainers has no caller in ServeHTTP, Init or Close and is reached
\* only this way.
LifecycleInit ==
    /\ Config \in [Type : {DynamicController}, ContainerAmount : {MaxAmount}]
    /\ Containers = <<>>
    /\ ContainerNo = 0
    /\ rt = <<>>
    /\ wHolder = Main
    /\ readers = {}
    /\ pc = [t \in Threads |-> IF t = Main THEN "direct" ELSE "unserved"]
    /\ initI = 0
    /\ chosen = [r \in Reqs |-> NoContainer]
    /\ status = [r \in Reqs |-> 0]
    /\ writes = [r \in Reqs |-> 0]
    /\ selections = [r \in Reqs |-> 0]
    /\ dispatches = [r \in Reqs |-> 0]
    /\ result = [r \in Reqs |-> "none"]
    /\ dormantSeen = [r \in Reqs |-> FALSE]
    /\ woke = [r \in Reqs |-> FALSE]
    /\ quarAtSelect = [r \in Reqs |-> FALSE]
    /\ quarantined = {}
    /\ crashed = FALSE
    /\ call = NoCall

callerVars == <<Config, wHolder, readers, pc, initI, reqVars, crashed>>

\* another method can be called: the controller has not been torn down
CanCall == pc[Main] = "direct" /\ call.op # "cleanup" /\ call.n < MaxCalls

Called(op, hard, err, at) ==
    call' = [op |-> op, hard |-> hard, err |-> err, at |-> at, n |-> call.n + 1,
             prev |-> call.op, prevErr |-> call.err]

\* s.createNewContainer()
CallCreate ==
    /\ CanCall
    /\ Len(Containers) < Config.ContainerAmount
    /\ ContainerNo' = ContainerNo + 1
    /\ \E ok \in BOOLEAN :
         /\ IF ok
            THEN /\ rt' = Append(rt, NewRtContainer)
                 /\ Containers' = createNewContainer(Containers, ContainerNo', RuntimeId(Len(rt) + 1))
            ELSE UNCHANGED <<rt, Containers>>
         /\ Called("create", FALSE, ~ok, 0)
    /\ UNCHANGED callerVars

\* s.startContainers()
CallStartAll ==
    /\ CanCall
    /\ \E f \in StartFailures(Containers) :
         LET res == startContainers(Containers, rt, f) IN
         /\ Containers' = res.cs
         /\ rt' = res.rt
         /\ Called("startAll", FALSE, res.err, f.at)
    /\ UNCHANGED <<ContainerNo, callerVars>>

\* s.stopContainers(hard)
CallStopAll ==
    /\ CanCall
    /\ \E hard \in BOOLEAN, os \in StopAnswers(Containers) :
         LET res == stopContainers(Containers, rt, hard, os) IN
         /\ Containers' = res.cs
         /\ rt' = res.rt
         /\ Called("stopAll", hard, res.err, res.at)
    /\ UNCHANGED <<ContainerNo, callerVars>>

\* the ids setContainerDirty can be given: those of the pool and one of no entry
DirtyIds(cs) == {cs[i].Id : i \in 1..Len(cs)} \cup {RuntimeId(0)}

\* s.setContainerDirty(id)
CallMarkDirty ==
    /\ CanCall
    /\ \E id \in DirtyIds(Containers) :
         /\ Containers' = setContainerDirty(Containers, id)
         /\ Called("markDirty", FALSE, FALSE, RtIdx(id))
    /\ UNCHANGED <<ContainerNo, rt, callerVars>>

\* s.cleanupContainers(), the last call on a controller
CallCleanup ==
    /\ CanCall
    /\ \E f \in CleanupFailures(Containers) :
         LET res == cleanupContainers(Containers, rt, f) IN
         /\ rt' = res.rt
         /\ Called("cleanup", FALSE, res.err, f.at)
    /\ UNCHANGED <<Containers, ContainerNo, callerVars>>

LifecycleNext ==
    \/ CallCreate
    \/ CallStartAll
    \/ CallStopAll
    \/ CallMarkDirty
    \/ CallCleanup

LifecycleSpec == LifecycleInit /\ [][LifecycleNext]_vars

\* ------------------------------------------ the program and the methods
\* a controller is either run by the server (Init, ServeHTTP, Close) or has
\* its methods called directly
AnyInit == Init \/ LifecycleInit

AnyNext == Next \/ LifecycleNext

AnySpec == AnyInit /\ [][AnyNext]_vars

\* ------------------------------------------------------------- type check
TypeOK ==
    /\ Config.Type \in controllerTypes
    /\ Len(Containers) <= Config.ContainerAmount
    /\ wHolder \in Threads \cup {NoThread}
    /\ readers \subseteq Reqs
    /\ \A r \in Reqs : status[r] \in {0, StatusInternalServerError, StatusBadGateway, StatusBackend}

\* ------------------------------------------------------------ properties
ReadySet == {i \in 1..Len(Containers) : Ready(Containers[i])}
IndexOfId(id) == CHOOSE i \in 1..Len(Containers) : Containers[i].Id = id

\* goroutines inside a section guarded by the exclusive lock
InExclusive ==
    {t \in Threads : (t = Main /\ pc[t] \in {"create", "cleanup"})
                     \/ (t # Main /\ pc[t] = "starting")}
\* requests between RLock and the end of their response
InFlight == {r \in Reqs : pc[r] \in {"select", "dispatch", "markdirty"}}

\* C1: a failed dispatch is answered with bad-gateway and sets the dirty flag
\* of the selected container (the step that follows a failed client.Do does
\* both), and a selection made after that marking completed never returns
\* the quarantined container.
C1_Quarantine ==
    [][\A r \in Reqs :
            /\ (pc[r] = "dispatch" /\ pc'[r] = "markdirty") => dispatches'[r] = 1 /\ status'[r] = 0
            /\ (pc[r] = "markdirty" /\ pc'[r] # "markdirty") =>
                  /\ pc'[r] = "done"
                  /\ status'[r] = StatusBadGateway
                  /\ Containers'[IndexOfId(chosen[r].Id)].Dirty
            /\ (pc[r] = "select" /\ pc'[r] = "dispatch") =>
                  /\ chosen'[r].Id \notin quarantined
                  /\ \A i \in 1..Len(Containers) :
                        Containers[i].Id \in quarantined => Containers[i].Dirty]_vars

\* a request selected another container after one had been quarantined
C1_Witness ==
    \E r \in Reqs :
        /\ pc[r] = "dispatch"
        /\ quarAtSelect[r]
        /\ \E q \in Reqs : result[q] = "dispatch_failed" /\ status[q] = StatusBadGateway

\* C2: selection returns only a ready entry, and fails exactly when the pool
\* holds no ready entry (empty pool included), whatever the random probes
\* draw; with a single ready entry that entry is the one returned.
C2_SelectReady ==
    [][\A r \in Reqs :
         (pc[r] = "select" /\ pc'[r] # "select") =>
            /\ pc'[r] = "dispatch" =>
                  \E i \in ReadySet : chosen'[r] = Containers[i]
            /\ (pc'[r] = "done") <=> (ReadySet = {})
            /\ pc'[r] = "done" => result'[r] = "select_failed"
            /\ \A i \in ReadySet :
                  ReadySet = {i} => pc'[r] = "dispatch" /\ chosen'[r] = Containers[i]]_vars

\* a request was given the only ready entry of a pool of two, the other
\* entry being dirty
C2_Witness ==
    \E r \in Reqs :
        /\ pc[r] = "dispatch"
        /\ Len(Containers) = 2
        /\ quarAtSelect[r]
        /\ Ready(Containers[IndexOfId(chosen[r].Id)])

\* C3: while a request holds the shared lock no exclusive-lock operation is
\* executing, the runtime is asked nothing (no container is started, killed
\* or removed) and no started flag or address changes; an exclusive section
\* is entered only when no request is in flight.
C3_SharedExcludesExclusive ==
    /\ [](readers = InFlight)
    /\ [](InFlight # {} => InExclusive = {})
    /\ [](Cardinality(InExclusive) <= 1)
    /\ [][InFlight # {} =>
            /\ rt' = rt
            /\ Len(Containers') = Len(Containers)
            /\ \A i \in 1..Len(Containers) :
                  /\ Containers'[i].Started = Containers[i].Started
                  /\ Containers'[i].IPAddr = Containers[i].IPAddr]_vars
    /\ [][InExclusive' \ InExclusive # {} => InFlight = {}]_vars

\* a shutdown or a wake-up waits for the lock while a request is in flight
C3_Witness ==
    /\ InFlight # {}
    /\ \/ pc[Main] = "close_lock"
       \/ \E r \in Reqs : pc[r] = "lockwait"

Started(cs) == {i \in 1..Len(cs) : cs[i].Started}
WakingUp == {r \in Reqs : pc[r] \in {"lock", "lockwait", "starting"}}

\* C4 as stated: a wake-up that fails answers 500 without selecting or
\* dispatching, and leaves no entry started.
C4_FailedWakeupLeavesPoolDormant ==
    [][\A r \in Reqs :
         (pc[r] = "starting" /\ pc'[r] = "done") =>
            /\ status'[r] = StatusInternalServerError
            /\ selections'[r] = 0 /\ dispatches'[r] = 0
            /\ Started(Containers') = {}]_vars

\* C4 amended: a wake-up that fails answers 500 without selecting or
\* dispatching; the entry whose start or inspect call failed and every entry
\* after it are not started, and every entry before it is started.
C4_FailedWakeupStopsAtFailure ==
    [][\A r \in Reqs :
         (pc[r] = "starting" /\ pc'[r] = "done") =>
            /\ status'[r] = StatusInternalServerError
            /\ result'[r] = "wakeup_failed"
            /\ selections'[r] = 0 /\ dispatches'[r] = 0
            /\ r \notin readers'
            /\ \E k \in 1..Len(Containers) :
                  /\ Started(Containers') = 1..(k - 1)
                  /\ rt'[RtIdx(Containers[k].Id)].starts = rt[RtIdx(Containers[k].Id)].starts + 1]_vars

\* a wake-up failed on the second entry of a dormant pool of two: the
\* request got 500 and the first entry is started
C4_Witness ==
    \E r \in Reqs :
        /\ result[r] = "wakeup_failed" /\ status[r] = StatusInternalServerError
        /\ Len(Containers) = 2
        /\ Started(Containers) = {1}

\* C5: in dynamic mode nothing is started when a successful Init returns,
\* a request that found the pool dormant never selects before its wake-up
\* has succeeded, and a request that reaches selection after a successful
\* wake-up finds every entry started.
C5_DormantThenWokenBeforeSelect ==
    Config.Type = DynamicController =>
        /\ (pc[Main] = "serving" /\ \A r \in Reqs : pc[r] = "idle") => Started(Containers) = {}
        /\ \A r \in Reqs :
            /\ r \in WakingUp => dormantSeen[r] /\ ~woke[r] /\ selections[r] = 0
            /\ (dormantSeen[r] /\ pc[r] \in {"rlock", "select"}) => woke[r]
            /\ (woke[r] /\ pc[r] \in {"rlock", "select"}) =>
                  /\ selections[r] = 0
                  /\ Started(Containers) = 1..Len(Containers)

\* a request is about to select after its own wake-up of a pool of two
C5_Witness ==
    \E r \in Reqs :
        /\ Config.Type = DynamicController
        /\ pc[r] = "select" /\ woke[r] /\ dormantSeen[r]
        /\ Len(Containers) = 2

\* C6: in static mode, once Init has succeeded every entry is started with
\* an address and stays so; no request ever takes the wake-up path, a
\* selected container is a started entry of the pool, and a selection made
\* on a non-empty pool with no quarantined entry succeeds.
C6_StaticPoolStaysStarted ==
    (Config.Type = StaticController /\ InitOK) =>
        /\ Len(Containers) = Config.ContainerAmount
        /\ Started(Containers) = 1..Len(Containers)
        /\ \A i \in 1..Len(Containers) : Containers[i].IPAddr # NoAddr
        /\ \A r \in Reqs :
            /\ r \notin WakingUp /\ ~dormantSeen[r] /\ ~woke[r]
            /\ result[r] # "wakeup_failed"
            /\ pc[r] \in {"dispatch", "markdirty"} =>
                  \E i \in 1..Len(Containers) :
                      /\ chosen[r].Id = Containers[i].Id
                      /\ chosen[r].IPAddr = Containers[i].IPAddr
                      /\ chosen[r].Started
            /\ result[r] = "select_failed" => (Len(Containers) = 0 \/ quarantined # {})

\* the first selection on a static pool of two returned one of the entries
C6_Witness ==
    \E r \in Reqs :
        /\ Config.Type = StaticController /\ Config.ContainerAmount = 2
        /\ pc[r] = "dispatch" /\ ~quarAtSelect[r]
        /\ quarantined = {}
        /\ \A q \in Reqs \ {r} : pc[q] = "idle"

Identity(cs) == [i \in 1..Len(cs) |-> <<cs[i].Name, cs[i].Id>>]

\* C7: after a successful Init the pool holds exactly ContainerAmount
\* entries, and no later step changes the number, the order or the name and
\* id of the entries.
C7_PoolFixedAfterInit ==
    /\ [](InitOK => Len(Containers) = Config.ContainerAmount)
    /\ [][InitOK => Identity(Containers') = Identity(Containers)]_vars
    /\ [][pc[Main] = "create" /\ pc'[Main] = "serving" => Len(Containers') = Config.ContainerAmount]_vars

\* a pool of two after its start, a dirty-marking and the shutdown
C7_Witness ==
    /\ pc[Main] = "closed"
    /\ Len(Containers) = 2
    /\ Started(Containers) # {}
    /\ \E i \in 1..Len(Containers) : Containers[i].Dirty

\* C8 as stated: with an empty pool, in either mode, a request is answered
\* with 500 from a failed selection, the process keeps running and no lock
\* stays held.
C8_EmptyPoolIsRecoverable ==
    (InitOK /\ Config.ContainerAmount = 0) =>
        /\ ~crashed
        /\ \A r \in Reqs :
            /\ pc[r] # "panicked"
            /\ pc[r] = "done" =>
                  /\ status[r] = StatusInternalServerError
                  /\ result[r] = "select_failed"
                  /\ r \notin readers /\ wHolder # r

\* C9: a request selects at most once, dispatches at most once and writes
\* exactly one status when it returns; a failed wake-up and a failed
\* selection answer 500, a failed dispatch answers 502, and a request that
\* has returned does nothing more.
C9_FailuresAreTerminal ==
    /\ [](\A r \in Reqs :
            /\ selections[r] <= 1 /\ dispatches[r] <= 1 /\ writes[r] <= 1
            /\ (pc[r] = "done") = (writes[r] = 1)
            /\ (pc[r] = "done") = (result[r] # "none")
            /\ writes[r] = 0 => status[r] = 0
            /\ result[r] = "wakeup_failed" =>
                  status[r] = StatusInternalServerError /\ selections[r] = 0 /\ dispatches[r] = 0
            /\ result[r] = "select_failed" =>
                  status[r] = StatusInternalServerError /\ selections[r] = 1 /\ dispatches[r] = 0
            /\ result[r] = "dispatch_failed" =>
                  status[r] = StatusBadGateway /\ selections[r] = 1 /\ dispatches[r] = 1)
    /\ [][\A r \in Reqs :
            pc[r] = "done" =>
                /\ pc'[r] = "done" /\ status'[r] = status[r] /\ writes'[r] = writes[r]
                /\ selections'[r] = selections[r] /\ dispatches'[r] = dispatches[r]
                /\ r \notin readers' /\ wHolder' # r]_vars

\* one request ended in a failed wake-up and another in a failed dispatch
C9_Witness ==
    \E r, q \in Reqs :
        /\ result[r] = "wakeup_failed"
        /\ result[q] = "dispatch_failed"

\* C10 as stated: while the controller serves and no lifecycle operation is
\* running, an entry is flagged started exactly when the runtime has started
\* its container and has not stopped or killed it since.
C10_PoolIsSourceOfTruth ==
    (InitOK /\ InExclusive = {}) =>
        \A i \in 1..Len(Containers) :
            Containers[i].Started = rt[RtIdx(Containers[i].Id)].running

\* ---------------------------------------------------------------- C11
StoppedHasNoAddr(cs) == \A i \in 1..Len(cs) : ~cs[i].Started => cs[i].IPAddr = NoAddr

Fresh(c) == ~c.Started /\ ~c.Dirty /\ c.IPAddr = NoAddr

\* C11: in every state reached by provisioning, startAll (aborted passes
\* included), stopAll (graceful, forced, aborted) and markDirty, every entry
\* that is not started has an empty address, and every entry a step adds to
\* the pool is not started, not dirty and has an empty address.
C11_StoppedEntriesHaveNoAddress ==
    /\ [](StoppedHasNoAddr(Containers))
    /\ [][\A i \in (Len(Containers) + 1)..Len(Containers') : Fresh(Containers'[i])]_vars

\* an aborted stopAll has stopped an entry that was running with an address,
\* another entry is still started, and the pool was provisioned in full
C11_Witness ==
    /\ call.op = "stopAll" /\ call.err
    /\ Len(Containers) = MaxAmount
    /\ \E i \in 1..Len(Containers) :
         ~Containers[i].Started /\ rt[RtIdx(Containers[i].Id)].starts > 0
    /\ \E i \in 1..Len(Containers) : Containers[i].Started

\* ---------------------------------------------------------------- C12
\* the started flag and the address of every entry
StartedState(cs) == [i \in 1..Len(cs) |-> <<cs[i].Started, cs[i].IPAddr>>]

\* startContainers is called right after startContainers
SecondStartAll == call.op = "startAll" /\ call'.op = "startAll"

\* no StartContainer call, and so no ContainerDetails call (it only follows
\* a successful start), reaches an entry that is already started
SkipsStarted ==
    \A i \in 1..Len(Containers) :
        Containers[i].Started =>
            /\ Containers'[i] = Containers[i]
            /\ rt'[RtIdx(Containers[i].Id)] = rt[RtIdx(Containers[i].Id)]

\* C12 as stated: a second startAll with no stop in between leaves started
\* flags and addresses as the first call left them and calls the runtime for
\* no entry that is already started.
C12_StartAllIdempotent ==
    [][SecondStartAll => StartedState(Containers') = StartedState(Containers) /\ SkipsStarted]_vars

\* C12 amended: a second startAll never calls the runtime for an entry that
\* is already started, and when the first call returned no error it changes
\* neither the pool nor the runtime.
C12_StartAllIdempotentAfterSuccess ==
    [][SecondStartAll =>
          /\ SkipsStarted
          /\ ~call.err => Containers' = Containers /\ rt' = rt /\ ~call'.err]_vars

\* the pool was provisioned in full, then startAll ran twice in a row; the
\* first call started every entry without error and the second added no start
C12_Witness ==
    /\ call.op = "startAll" /\ call.prev = "startAll" /\ ~call.prevErr
    /\ Len(Containers) = MaxAmount
    /\ \A i \in 1..Len(Containers) :
         Containers[i].Started /\ rt[RtIdx(Containers[i].Id)].starts = 1

\* ---------------------------------------------------------------- C13
\* the first started entry at which a pass of stopAll gives up: without hard
\* the first whose graceful stop fails, with hard the first whose graceful
\* stop and forced kill both fail; 0 when there is none
GivesUpAt(cs, hard, os) ==
    LET bad == {i \in 1..Len(cs) :
                  cs[i].Started /\ IF hard THEN os[i] = "kill_err" ELSE os[i] # "ok"}
    IN  IF bad = {} THEN 0 ELSE Min(bad)

\* the started entries a pass reaches: all of them, or those up to the entry
\* at which it gives up
Reached(cs, k) == {i \in 1..Len(cs) : cs[i].Started /\ (k = 0 \/ i <= k)}

\* C13: on every pool the lifecycle methods can produce and for every way
\* the runtime can answer, stopAll(hard=false) returns an error at the first
\* started entry whose graceful stop fails, leaving it and every later entry
\* untouched and the earlier ones stopped; stopAll(hard=true) force-kills an
\* entry whose graceful stop failed, clears it and goes on when the kill
\* succeeded, and returns an error at the first failing kill, leaving that
\* entry started and the later ones unprocessed.
C13_StopAllFailureHandling ==
    \A hard \in BOOLEAN, os \in StopAnswers(Containers) :
        LET res == stopContainers(Containers, rt, hard, os)
            k == GivesUpAt(Containers, hard, os)
        IN  /\ res.err = (k # 0)
            /\ res.at = k
            /\ Len(res.cs) = Len(Containers)
            /\ \A i \in 1..Len(Containers) :
                 LET x == RtIdx(Containers[i].Id) IN
                 /\ IF k # 0 /\ i >= k
                    THEN res.cs[i] = Containers[i]
                    ELSE res.cs[i] = [Containers[i] EXCEPT !.Started = FALSE, !.IPAddr = NoAddr]
                 /\ k # 0 /\ i > k => res.rt[x] = rt[x]
                 /\ res.rt[x].kills =
                      IF i \in Reached(Containers, k) /\ hard /\ os[i] # "ok"
                      THEN rt[x].kills + 1 ELSE rt[x].kills
                 /\ i \in Reached(Containers, k) /\ hard /\ os[i] = "stop_err"
                      => ~res.rt[x].running

\* stopAll(hard=true) ran on a fully started pool: the first entry was
\* force-killed after its graceful stop failed and is cleared, the pass went
\* on to a later entry and gave up there, leaving it started
C13_Witness ==
    /\ call.op = "stopAll" /\ call.hard /\ call.err /\ call.at > 1
    /\ call.prev = "startAll" /\ ~call.prevErr
    /\ Len(Containers) = MaxAmount
    /\ ~Containers[1].Started /\ Containers[1].IPAddr = NoAddr
    /\ rt[RtIdx(Containers[1].Id)].kills = 1
    /\ Containers[call.at].Started
    /\ rt[RtIdx(Containers[call.at].Id)].kills = 1

\* ---------------------------------------------------------------- C14
\* C14: on every pool the lifecycle methods can produce and for every
\* failure the runtime can answer with, cleanup goes through the pool in
\* order, kills an entry exactly when it is started and then removes it,
\* removes every entry when nothing fails, and at the first failing kill or
\* remove returns an error without killing or removing any later entry.
C14_CleanupInOrderAbortsOnError ==
    call.op # "cleanup" =>
    \A f \in CleanupFailures(Containers) :
        LET res == cleanupContainers(Containers, rt, f)
            k == f.at
        IN  /\ res.err = (k # 0)
            /\ \A i \in 1..Len(Containers) :
                 LET c == Containers[i]
                     x == RtIdx(c.Id)
                 IN  IF k # 0 /\ i > k
                     THEN res.rt[x] = rt[x]
                     ELSE /\ res.rt[x].kills = IF c.Started THEN rt[x].kills + 1 ELSE rt[x].kills
                          /\ res.rt[x].removed = (k = 0 \/ i < k)
                          /\ c.Started /\ ~(i = k /\ f.kind = "kill_err") => ~res.rt[x].running
                          /\ i = k /\ f.kind = "kill_err" => res.rt[x].running = rt[x].running

\* cleanup ran on a fully provisioned pool whose first entry was started: it
\* killed the first entry, failed to remove it and returned an error, and no
\* entry is removed
C14_Witness ==
    /\ call.op = "cleanup" /\ call.err /\ call.at = 1
    /\ Len(Containers) = MaxAmount
    /\ Containers[1].Started
    /\ rt[RtIdx(Containers[1].Id)].kills = 1
    /\ ~rt[RtIdx(Containers[1].Id)].running
    /\ \A i \in 1..Len(Containers) : ~rt[RtIdx(Containers[i].Id)].removed
    /\ \A i \in 2..Len(Containers) : rt[RtIdx(Containers[i].Id)].kills = 0

\* ---------------------------------------------------------------- C15
\* the sequence number in a container name
NameNo(c) == c.Name[2]

\* names are <deployment>-<k> with k strictly increasing in pool order and
\* never beyond the counter
NamesIncrease(cs, no) ==
    /\ \A i \in 1..Len(cs) : cs[i].Name[1] = Deployment /\ NameNo(cs[i]) \in 1..no
    /\ \A i, j \in 1..Len(cs) : i < j => NameNo(cs[i]) < NameNo(cs[j])

\* C15: every creation attempt, failed or not, raises the counter by one
\* and nothing else changes it; an entry added to the pool is named
\* <deployment>-<counter after the increment>; so the names in the pool are
\* pairwise distinct, strictly increasing in pool order, and a number used
\* by a failed creation is never given to a later entry.
C15_NamesFollowCounter ==
    /\ [](NamesIncrease(Containers, ContainerNo))
    /\ [][/\ ContainerNo' = IF call'.op = "create" THEN ContainerNo + 1 ELSE ContainerNo
          /\ \A i \in (Len(Containers) + 1)..Len(Containers') :
               Containers'[i].Name = ContainerName(ContainerNo')
          /\ \A i \in 1..Len(Containers) : Containers'[i].Name = Containers[i].Name]_vars

\* the pool is full although a creation failed between the first and the
\* second entry: the number of the failed attempt is missing from the names
C15_Witness ==
    /\ Len(Containers) = MaxAmount
    /\ call.op = "create" /\ ~call.err
    /\ NameNo(Containers[1]) = 1
    /\ NameNo(Containers[2]) = 3
    /\ ContainerNo = MaxAmount + 1

\* ---------------------------------------------------------------- C16
\* the id given to the last setContainerDirty call matches no pool entry
MatchesNoEntry(cs, x) == \A i \in 1..Len(cs) : RtIdx(cs[i].Id) # x

\* C16: in every step of the program (requests, wake-ups, dirty-markings,
\* shutdown) and of the directly called methods (startAll, stopAll,
\* markDirty, cleanup), an entry whose dirty flag is set is still in the
\* pool at the same place with the flag set; and setContainerDirty with an
\* id that matches no entry leaves the pool as it was.
C16_DirtyIsOneWay ==
    [][/\ \A i \in 1..Len(Containers) :
            Containers[i].Dirty =>
               /\ i <= Len(Containers')
               /\ Containers'[i].Id = Containers[i].Id
               /\ Containers'[i].Dirty
       /\ (call'.op = "markDirty" /\ call'.n # call.n /\ MatchesNoEntry(Containers, call'.at))
             => Containers' = Containers]_vars

\* an entry that was marked dirty went through a stopAll and then a
\* startAll and is started again, still dirty
C16_Witness ==
    /\ call.op = "startAll" /\ call.prev = "stopAll"
    /\ \E i \in 1..Len(Containers) :
         /\ Containers[i].Dirty /\ Containers[i].Started
         /\ rt[RtIdx(Containers[i].Id)].starts = 2

\* ---------------------------------------------------------------- C17
\* the steps in which request r ends with a failure
WakeupFails(r) == pc[r] = "starting" /\ pc'[r] = "done"
SelectFails(r) == pc[r] = "select" /\ pc'[r] = "done"
DispatchFails(r) == pc[r] = "markdirty" /\ pc'[r] = "done"

\* only the dirty flag of the entry request r selected changes
OnlyChosenDirtied(r) ==
    /\ Len(Containers') = Len(Containers)
    /\ \A i \in 1..Len(Containers) :
         Containers'[i] = IF Containers[i].Id = chosen[r].Id
                          THEN [Containers[i] EXCEPT !.Dirty = TRUE]
                          ELSE Containers[i]

\* C17 as stated: a selection failure changes no entry, a dispatch failure
\* changes only the dirty flag of the selected entry, and a wake-up failure
\* changes no entry.
C17_FailuresLeavePoolUntouched ==
    [][\A r \in Reqs :
         /\ SelectFails(r) => Containers' = Containers
         /\ DispatchFails(r) => OnlyChosenDirtied(r)
         /\ WakeupFails(r) => Containers' = Containers]_vars

\* C17 amended: a selection failure changes no entry, a dispatch failure
\* changes only the dirty flag of the selected entry, and a wake-up failure
\* changes nothing of the entry whose start or inspect call failed and of
\* the entries after it; of the entries before it, it changes only the
\* started flag and the address of those that were not started, and no
\* dirty flag, name or id.
C17_FailuresTouchOnlyTheirEntries ==
    [][\A r \in Reqs :
         /\ SelectFails(r) => Containers' = Containers
         /\ DispatchFails(r) => OnlyChosenDirtied(r)
         /\ WakeupFails(r) =>
               /\ Len(Containers') = Len(Containers)
               /\ \E k \in 1..Len(Containers) :
                    \A i \in 1..Len(Containers) :
                       IF i >= k \/ Containers[i].Started
                       THEN Containers'[i] = Containers[i]
                       ELSE Containers'[i] = [Containers[i] EXCEPT !.Started = TRUE,
                                                  !.IPAddr = IPAddressOf(Containers[i].Id)]]_vars

\* one request's wake-up failed after it had started the first entry, and
\* another request's dispatch to that entry failed: the first entry is
\* started and dirty, the second is as it was created
C17_Witness ==
    /\ Len(Containers) >= 2
    /\ \E r1, r2 \in Reqs : result[r1] = "wakeup_failed" /\ result[r2] = "dispatch_failed"
    /\ Containers[1].Started /\ Containers[1].Dirty
    /\ Fresh(Containers[2])

\* ---------------------------------------------------------------- C18
\* thread t holds or has announced the exclusive lock, or holds the shared one
HoldsLock(t) == wHolder = t \/ t \in readers

\* a request that has been taken up and has not returned
Handling(r) == pc[r] \notin {"idle", "done"}

\* C18: a request that has returned holds no lock, and one that has taken
\* the shared lock has given up the exclusive one; some step is possible as
\* long as a request is being handled or Close waits for the lock; every
\* request that is taken up ends with a response; and a Close that waits
\* for the exclusive lock gets it.
C18_LocksReleasedAndProgress ==
    /\ [](\A r \in Reqs : /\ pc[r] = "done" => ~HoldsLock(r)
                          /\ r \in readers => wHolder # r)
    /\ []((pc[Main] = "close_lock" \/ \E r \in Reqs : Handling(r)) => ENABLED Next)
    /\ \A r \in Reqs : Handling(r) ~> (pc[r] = "done" /\ status[r] # 0 /\ writes[r] = 1)
    /\ (pc[Main] = "close_lock") ~> (pc[Main] = "cleanup")

\* ---------------------------------------------------------------- C19
\* no wake-up has been cut short by a failing start or inspect call
NoWakeupFailed == \A r \in Reqs : result[r] # "wakeup_failed"

\* request r runs startContainers on a pool that is already fully started
LateWakeup(r) ==
    /\ pc[r] = "starting" /\ pc'[r] # "starting"
    /\ \A i \in 1..Len(Containers) : Containers[i].Started

\* C19: in dynamic mode, as long as no start or inspect call has failed,
\* the runtime has been asked to start each container at most once, however
\* many requests saw the pool dormant before taking the lock; a wake-up that
\* finds every entry started succeeds and changes neither pool nor runtime.
C19_StartedAtMostOnce ==
    /\ [](Config.Type = DynamicController /\ NoWakeupFailed
            => \A x \in 1..Len(rt) : rt[x].starts <= 1)
    /\ [][\A r \in Reqs :
            LateWakeup(r) => /\ poolVars' = poolVars
                             /\ pc'[r] = "rlock" /\ woke'[r]]_vars

\* two requests saw the pool dormant and both have run their wake-up: the
\* pool is fully started and each container was started once
C19_Witness ==
    /\ Config.Type = DynamicController
    /\ Len(Containers) = MaxAmount
    /\ \E r1, r2 \in Reqs : r1 # r2 /\ woke[r1] /\ woke[r2]
    /\ \A i \in 1..Len(Containers) :
         Containers[i].Started /\ rt[RtIdx(Containers[i].Id)].starts = 1

\* ---------------------------------------------------------------- C20
\* thread t is inside code that assigns to pool entries: the creation loop
\* of Init, startContainers of a wake-up, setContainerDirty of a request
Writing(t) ==
    IF t = Main THEN pc[t] = "create" ELSE pc[t] \in {"starting", "markdirty"}

\* the next thing request r does is read Containers[0].Started for the
\* dormancy test, holding no lock
UnlockedRead(r) ==
    /\ pc[r] = "idle" /\ InitOK /\ ~crashed
    /\ Config.Type = DynamicController /\ Len(Containers) > 0

\* C20: no request reads a field of a pool entry without the lock while
\* another thread is writing pool entries, and no two threads are writing
\* pool entries at the same time.
C20_NoDataRace ==
    /\ \A r \in Reqs, t \in Threads : (r # t /\ UnlockedRead(r)) => ~Writing(t)
    /\ \A t1, t2 \in Threads : (t1 # t2 /\ Writing(t1)) => ~Writing(t2)

====
